---- MODULE Spec2Model ----
(***************************************************************************)
(* State-machine model of src/offline/vds.py (main): the script that      *)
(* builds one virtual dataset over the per-module AGIPD files of a run.   *)
(*                                                                         *)
(*  pass 1 (lines 38-65)  scans INDEX/trainId of every file of every      *)
(*                        module and sizes the canonical timeline;        *)
(*  lines 67-86           create the output file and its id datasets;     *)
(*  pass 2 (lines 87-137) validates the rows of every file, declares one  *)
(*                        virtual mapping per chunk and writes cell and   *)
(*                        pulse ids;                                       *)
(*  lines 139-140         commit the virtual dataset and close the file.  *)
(*                                                                         *)
(* The contents of the input files are the environment: the directory     *)
(* listing (number of files per module) is fixed in Init, and the arrays  *)
(* of a file are drawn from bounded sets at the step that opens it (each  *)
(* array is read once per pass).                                           *)
(***************************************************************************)
EXTENDS Integers, Sequences, FiniteSets, TLC

\* ---------------------------------------------------------------- bounds
\* Scaled-down program constants (the code's values are in the comments).
NModules == 2      \* range(16), lines 40 and 87
npulses == 2       \* npulses = 128, line 32
chunk_size == 2    \* chunk_size = 32, line 112
\* Sizes of the inputs.
MaxFiles == 2      \* files of the run, over all modules (lengths of flist)
MaxIndex == 3      \* length of a file's INDEX/trainId array
MaxRows == 3       \* rows (frames) of a file's image arrays

\* ------------------------------------------------------ program constants
MAX_TRAINS_IN_FILE == 260
\* 65535: initial data of cellId / pulseId (lines 83, 86) and
\* np.iinfo(np.uint16).max, the fill value of the virtual dataset (line 139).
fillvalue == 65535
\* Stands for sys.maxsize (2^63 - 1): larger than every train id of the model.
maxsize == 2^30

\* Train ids that occur in INDEX/trainId and in image/trainId of the inputs:
\* 0 (no acquisition), neighbouring trains, a train a few ids later, and one
\* beyond the span limit.
IndexTrains == {0, 5, 6, 10, 305}
RowTrains == {0, 5, 6}

Modules == 0 .. (NModules - 1)

\* ---------------------------------------------------------------- helpers
Min2(a, b) == IF b < a THEN b ELSE a      \* Python min(a, b)
Max2(a, b) == IF b > a THEN b ELSE a      \* Python max(a, b)

SeqMin(s) == CHOOSE x \in {s[i] : i \in 1..Len(s)} : \A i \in 1..Len(s) : x <= s[i]
SeqMax(s) == CHOOSE x \in {s[i] : i \in 1..Len(s)} : \A i \in 1..Len(s) : x >= s[i]

RECURSIVE SortedSeq(_)
\* The elements of a finite set of integers in ascending order (np.where order).
SortedSeq(S) ==
  IF S = {} THEN << >>
  ELSE LET x == CHOOSE x \in S : \A y \in S : x <= y
       IN  <<x>> \o SortedSeq(S \ {x})

SeqsUpTo(S, n) == UNION {[1..k -> S] : k \in 0..n}

RECURSIVE Total(_, _)
\* Sum of f over the set D.
Total(f, D) ==
  IF D = {} THEN 0
  ELSE LET x == CHOOSE x \in D : TRUE IN f[x] + Total(f, D \ {x})

\* ------------------------------------------------------------------ inputs
\* Directory listings: the number of files of each module.
Listings == {f \in [Modules -> 0..MaxFiles] : Total(f, Modules) <= MaxFiles}

\* INDEX/trainId of one file: a non-empty array of train ids.
IndexArrays == SeqsUpTo(IndexTrains, MaxIndex) \ {<< >>}

\* One row of image/trainId, image/cellId, image/pulseId (same physical row).
\* Cell ids are below npulses; pulse ids are drawn as 4 * cellId + 1, so that
\* all modules agree on the pulse id of a cell and the two ids are told apart.
RowVals == {[tid |-> t, cid |-> c, pid |-> 4 * c + 1] : t \in RowTrains, c \in 0..(npulses - 1)}
FileRows == SeqsUpTo(RowVals, MaxRows) \ {<< >>}

VARIABLES
  pc,          \* position of main
  nfiles,      \* nfiles[m] = len(flist) of module m (the glob of lines 43, 88)
  m,           \* loop variable m of lines 40 and 87
  fi,          \* 1-based position of fname in flist
  idx,         \* tid of line 46: INDEX/trainId of the file last scanned
  tmin, tmax,  \* lines 41-42
  ftrain,      \* line 39
  ntrains,     \* line 38
  ltrain,      \* line 61
  seen,        \* observation: train ids read from files within the span limit
  outf,        \* the output file: "none", "open" or "closed"
  trainId,     \* dataset image/trainId of the output (line 78)
  outdset_cid, \* dataset image/cellId: written positions (else initial data)
  outdset_pid, \* dataset image/pulseId: written positions (else initial data)
  layout_data, \* declared virtual mappings: set of [mod, dest, src]
  vds,         \* the virtual dataset image/data: created or not, fill value
  rows,        \* image arrays of the file being mapped (lines 94-95, 130-131)
  sel,         \* sel of lines 101-105
  chunk,       \* loop variable of line 114
  kept,        \* observation: every row selected so far, with its module and file
  written      \* observation: per module, the net cell/pulse id writes

vars == <<pc, nfiles, m, fi, idx, tmin, tmax, ftrain, ntrains, ltrain, seen,
          outf, trainId, outdset_cid, outdset_pid, layout_data, vds,
          rows, sel, chunk, kept, written>>

scanVars == <<idx, tmin, tmax, ftrain, ntrains, ltrain, seen>>
outVars  == <<outf, trainId, outdset_cid, outdset_pid, layout_data, vds>>
fileVars == <<rows, sel, chunk>>
obsVars  == <<kept, written>>

Init ==
  /\ pc = "scan"
  /\ nfiles \in Listings
  /\ m = 0
  /\ fi = 1
  /\ idx = << >>
  /\ tmin = maxsize
  /\ tmax = 0
  /\ ftrain = maxsize
  /\ ntrains = -1
  /\ ltrain = 0
  /\ seen = {}
  /\ outf = "none"
  /\ trainId = [first |-> 0, count |-> 0]
  /\ outdset_cid = [init |-> 0, data |-> << >>]
  /\ outdset_pid = [init |-> 0, data |-> << >>]
  /\ layout_data = {}
  /\ vds = [created |-> FALSE, fill |-> 0]
  /\ rows = << >>
  /\ sel = << >>
  /\ chunk = 0
  /\ kept = {}
  /\ written = [k \in Modules |-> << >>]

\* ------------------------------------------------------- pass 1: timeline
\* tid.max() - tid.min() > MAX_TRAINS_IN_FILE (line 47)
TooLarge(tid) == SeqMax(tid) - SeqMin(tid) > MAX_TRAINS_IN_FILE

\* tmin after one file (lines 49-50 and 54)
ScanTmin(tid, tmin0) ==
  IF TooLarge(tid)
  THEN IF SeqMin(tid) > 0 THEN Min2(tmin0, SeqMin(tid)) ELSE tmin0
  ELSE Min2(tmin0, SeqMin(tid))

\* Variant of ScanTmax: the file's maximum instead of its last sample.
ScanTmaxFullRange(tid, tmax0, last) ==
  IF TooLarge(tid) /\ ~last THEN tmax0 ELSE Max2(tmax0, SeqMax(tid))

\* tmax after one file (lines 51-52 and 55); last: fname == flist[-1]
ScanTmax(tid, tmax0, last) ==
  IF TooLarge(tid)
  THEN IF last THEN Max2(tmax0, tid[Len(tid)]) ELSE tmax0
  ELSE Max2(tmax0, SeqMax(tid))

\* Body of the loop of line 44 for one file of module m.
ScanFile ==
  /\ pc = "scan"
  /\ fi <= nfiles[m]
  /\ \E tid \in IndexArrays :
       /\ idx' = tid
       /\ tmin' = ScanTmin(tid, tmin)
       /\ tmax' = ScanTmax(tid, tmax, fi = nfiles[m])
       /\ ftrain' = IF TooLarge(tid) THEN ftrain ELSE Min2(ftrain, tmin')
       /\ seen' = IF TooLarge(tid) THEN seen
                  ELSE seen \cup {tid[i] : i \in 1..Len(tid)}
  /\ fi' = fi + 1
  /\ UNCHANGED <<pc, nfiles, m, ntrains, ltrain>>
  /\ UNCHANGED <<outVars, fileVars, obsVars>>

\* tmax - tmin of line 59.  tmin and tmax are Python ints while they hold their
\* initial values and numpy uint64 once taken from a file; uint64 - uint64 wraps
\* when tmax < tmin (the result, near 2^64, is shown as maxsize), and the mixed
\* differences are negative.
SpanOf(tmax0, tmin0) ==
  IF 0 < tmax0 /\ tmax0 < tmin0 /\ tmin0 < maxsize THEN maxsize ELSE tmax0 - tmin0

\* Line 59, then the next iteration of the loop of line 40 (lines 41-43).
ScanModuleEnd ==
  /\ pc = "scan"
  /\ fi > nfiles[m]
  /\ ntrains' = Max2(ntrains, SpanOf(tmax, tmin))
  /\ IF m + 1 < NModules
     THEN /\ m' = m + 1
          /\ fi' = 1
          /\ tmin' = maxsize
          /\ tmax' = 0
          /\ pc' = "scan"
     ELSE /\ pc' = "timeline"
          /\ UNCHANGED <<m, fi, tmin, tmax>>
  /\ UNCHANGED <<nfiles, idx, ftrain, ltrain, seen>>
  /\ UNCHANGED <<outVars, fileVars, obsVars>>

\* Lines 60-65.  A wrapped span makes np.arange (line 63) fail: main ends with
\* an exception before the output file is created.
\* tid (idx), tmin and tmax are not read again: the model drops their values.
BuildTimeline ==
  /\ pc = "timeline"
  /\ IF ntrains >= maxsize
     THEN /\ pc' = "crashed"
          /\ UNCHANGED <<ntrains, ltrain>>
     ELSE /\ ntrains' = ntrains + 4
          /\ ltrain' = ftrain + ntrains'
          /\ pc' = "create"
  /\ idx' = << >>
  /\ tmin' = maxsize
  /\ tmax' = 0
  /\ UNCHANGED <<nfiles, m, fi, ftrain, seen>>
  /\ UNCHANGED <<outVars, fileVars, obsVars>>

\* ------------------------------------------------- lines 67-86: the output
\* Number of canonical positions: len(all_trains) = ntrains * npulses.
FrameCount == ntrains * npulses
Frames == 0 .. (FrameCount - 1)

\* all_trains[f] of line 63: np.repeat(np.arange(ftrain, ftrain+ntrains), npulses)
all_trains(f) == ftrain + (f \div npulses)

\* all_flatid[f] of line 65: (all_trains - ftrain) * npulses + all_cells
all_flatid(f) == (all_trains(f) - ftrain) * npulses + (f % npulses)

\* Variant of InitialIds: 65536, the fill value the module docstring names.
InitialIdsDocstring == fillvalue + 1

\* Initial data of the cellId and pulseId datasets (lines 83 and 86).
InitialIds == fillvalue

\* Lines 67-86.  glob(...AGIPD00...)[0] raises IndexError when module 0 has no
\* file: main ends before the output file is opened.  Otherwise the file is
\* created with trainId = all_trains and cellId, pulseId holding 65535.
CreateOutput ==
  /\ pc = "create"
  /\ IF nfiles[0] = 0
     THEN /\ pc' = "crashed"
          /\ UNCHANGED <<m, fi, outVars>>
     ELSE /\ pc' = "map"
          /\ m' = 0
          /\ fi' = 1
          /\ outf' = "open"
          /\ trainId' = [first |-> ftrain, count |-> ntrains]
          /\ outdset_cid' = [init |-> InitialIds, data |-> << >>]
          /\ outdset_pid' = [init |-> InitialIds, data |-> << >>]
          /\ UNCHANGED <<layout_data, vds>>
  /\ seen' = {}
  /\ UNCHANGED <<nfiles, idx, tmin, tmax, ftrain, ntrains, ltrain>>
  /\ UNCHANGED <<fileVars, obsVars>>

\* The source rows declared for destination (k, f) of the virtual dataset.  A
\* destination without a source reads vds.fill; with several sources declared,
\* which one is read is not determined.
Sources(k, f) == {e.src : e \in {x \in layout_data : x.mod = k /\ x.dest = f}}

\* Reading the id datasets of the output at canonical position f.
TrainIdAt(f) == trainId.first + (f \div npulses)
CellIdAt(f) == IF f \in DOMAIN outdset_cid.data THEN outdset_cid.data[f] ELSE outdset_cid.init
PulseIdAt(f) == IF f \in DOMAIN outdset_pid.data THEN outdset_pid.data[f] ELSE outdset_pid.init

\* ------------------------------------------------ pass 2: validate and map
\* Number of rows j < i (resp. all rows) of tid with the train id of row i.
Earlier(tid, i) == Cardinality({j \in 1..(i - 1) : tid[j] = tid[i]})
Count(tid, i) == Cardinality({j \in 1..Len(tid) : tid[j] = tid[i]})

\* Range test of line 101.
InRange(t, lt) == t > 0 /\ t < lt

\* Variant of Repeated: the slice starts one row late ([npulses+1:]).
RepeatedOffByOne(tid, i) == Count(tid, i) > npulses /\ Earlier(tid, i) > npulses

\* Lines 103-105: a train id with more than npulses rows keeps its first
\* npulses rows (np.where(tid == tid[i])[0][npulses:] are cleared).
Repeated(tid, i) == Count(tid, i) > npulses /\ Earlier(tid, i) >= npulses

\* sel of lines 101-105 for the train ids tid of one file.
SelOf(tid, lt) == [i \in 1..Len(tid) |-> InRange(tid[i], lt) /\ ~Repeated(tid, i)]

TidOf(r) == [i \in 1..Len(r) |-> r[i].tid]

\* Indexes of the selected rows among lo..hi.
Selected(s, lo, hi) == {i \in lo..hi : i <= Len(s) /\ s[i]}

\* Lines 91-109 for one file: read the id arrays, compute sel; a file without
\* a selected row is skipped (line 107).
OpenFile ==
  /\ pc = "map"
  /\ fi <= nfiles[m]
  /\ \E r \in FileRows :
       LET s == SelOf(TidOf(r), ltrain) IN
       IF Selected(s, 1, Len(r)) = {}
       THEN /\ fi' = fi + 1
            /\ UNCHANGED <<pc, fileVars, kept>>
       ELSE /\ rows' = r
            /\ sel' = s
            /\ chunk' = 0
            /\ pc' = "chunk"
            /\ kept' = kept \cup {[mod |-> m, file |-> fi, row |-> i,
                                   tid |-> r[i].tid, cid |-> r[i].cid] :
                                     i \in Selected(s, 1, Len(r))}
            /\ UNCHANGED fi
  /\ UNCHANGED <<nfiles, m, written>>
  /\ UNCHANGED <<scanVars, outVars>>

\* flatid of line 96 for one row: uint64 arithmetic, so a train id below ftrain
\* wraps to a value near 2^64 (shown as maxsize), which is in no all_flatid.
flatid(r) == IF r.tid >= ftrain THEN (r.tid - ftrain) * npulses + r.cid ELSE maxsize

\* num_chunks of line 113 for n rows.
num_chunks(n) == (n + chunk_size - 1) \div chunk_size

\* chunk_sel of lines 115-117: indexes (1-based) of the selected rows of chunk c.
chunk_sel(c) ==
  Selected(sel, c * chunk_size + 1, Min2(Len(rows), (c + 1) * chunk_size))

\* chunk_ind of line 118: positions of all_flatid that are a flatid of the chunk.
chunk_ind(c) == {p \in {flatid(rows[i]) : i \in chunk_sel(c)} : p \in Frames}

\* Variant of Mismatch: only a surplus of destinations is a mismatch.
MismatchSurplusOnly(nsel, nind) == nsel < nind

\* Test of line 119.
Mismatch(nsel, nind) == nsel # nind

\* Line 128: layout_data[m, chunk_ind] = vsource[chunk_sel]: the k-th selected
\* row (physical order) is the source of the k-th destination (ascending).
ChunkEntries(c) ==
  LET src == SortedSeq(chunk_sel(c))
      dst == SortedSeq(chunk_ind(c))
  IN  {[mod |-> m, dest |-> dst[k], src |-> <<fi, src[k]>>] : k \in 1..Len(dst)}

\* One iteration of the loop of line 114.
MapChunk ==
  /\ pc = "chunk"
  /\ chunk < num_chunks(Len(rows))
  /\ IF Mismatch(Cardinality(chunk_sel(chunk)), Cardinality(chunk_ind(chunk)))
     THEN /\ pc' = "aborted"
          /\ UNCHANGED <<chunk, layout_data>>
     ELSE /\ chunk' = chunk + 1
          /\ layout_data' = layout_data \cup ChunkEntries(chunk)
          /\ UNCHANGED pc
  /\ UNCHANGED <<nfiles, m, fi, rows, sel>>
  /\ UNCHANGED <<scanVars, obsVars, outf, trainId, outdset_cid, outdset_pid, vds>>

\* indices of line 109: positions whose train is the train of a selected row.
\* (np.in1d(all_trains, tid[sel]): all npulses positions of each such train
\* that lies on the timeline.)
indices ==
  {(rows[i].tid - ftrain) * npulses + c :
     i \in {j \in Selected(sel, 1, Len(rows)) :
              rows[j].tid >= ftrain /\ rows[j].tid < ftrain + ntrains},
     c \in 0..(npulses - 1)}

\* f overridden by g
Override(f, g) ==
  [p \in (DOMAIN f) \cup (DOMAIN g) |-> IF p \in DOMAIN g THEN g[p] ELSE f[p]]

\* The assignment dset[sel_indices] = vals of lines 134-135: the k-th selected
\* row's value goes to the k-th position of indices (ascending).
MetaWrites ==
  LET src == SortedSeq(Selected(sel, 1, Len(rows)))
      dst == SortedSeq(indices)
  IN  [p \in indices |->
         LET k == CHOOSE k \in 1..Len(dst) : dst[k] = p
         IN  [cid |-> rows[src[k]].cid, pid |-> rows[src[k]].pid]]

\* Lines 130-137, after the last chunk.  h5py refuses a boolean-mask write whose
\* value has another length than the mask has True entries (TypeError): main
\* ends with an exception and the output file stays as it is.
\* rows, sel and chunk are not read again and are emptied.
WriteMeta ==
  /\ pc = "chunk"
  /\ chunk = num_chunks(Len(rows))
  /\ IF Cardinality(indices) # Cardinality(Selected(sel, 1, Len(rows)))
     THEN /\ pc' = "crashed"
          /\ UNCHANGED <<fi, outdset_cid, outdset_pid, written, fileVars>>
     ELSE /\ pc' = "map"
          /\ fi' = fi + 1
          /\ outdset_cid' = [outdset_cid EXCEPT !.data =
                Override(@, [p \in indices |-> MetaWrites[p].cid])]
          /\ outdset_pid' = [outdset_pid EXCEPT !.data =
                Override(@, [p \in indices |-> MetaWrites[p].pid])]
          /\ written' = [written EXCEPT ![m] = Override(@, MetaWrites)]
          /\ rows' = << >>
          /\ sel' = << >>
          /\ chunk' = 0
  /\ UNCHANGED <<nfiles, m, kept>>
  /\ UNCHANGED <<scanVars, outf, trainId, layout_data, vds>>

\* End of flist (line 89): the next iteration of the loop of line 87.
NextModule ==
  /\ pc = "map"
  /\ fi > nfiles[m]
  /\ m + 1 < NModules
  /\ m' = m + 1
  /\ fi' = 1
  /\ UNCHANGED <<pc, nfiles>>
  /\ UNCHANGED <<scanVars, outVars, fileVars, obsVars>>

\* fillvalue of line 139: np.iinfo(np.uint16).max
VdsFill == fillvalue

\* Lines 139-140: create the virtual dataset from layout_data, close the file.
Commit ==
  /\ pc = "map"
  /\ fi > nfiles[m]
  /\ m + 1 = NModules
  /\ vds' = [created |-> TRUE, fill |-> VdsFill]
  /\ outf' = "closed"
  /\ pc' = "done"
  /\ UNCHANGED <<nfiles, m, fi>>
  /\ UNCHANGED <<scanVars, trainId, outdset_cid, outdset_pid, layout_data>>
  /\ UNCHANGED <<fileVars, obsVars>>

\* ------------------------------------------------------------------ run
Next ==
  \/ ScanFile \/ ScanModuleEnd \/ BuildTimeline \/ CreateOutput
  \/ OpenFile \/ MapChunk \/ WriteMeta \/ NextModule \/ Commit

Spec == Init /\ [][Next]_vars

\* ===================================================================
\* Properties
\* ===================================================================
\* Canonical position (train id - firstTrainId) * pulsesPerTrain + cellId of a
\* row, and the rows that have one on the timeline.
Position(t, c) == (t - ftrain) * npulses + c
OnTimeline(t) == t >= ftrain /\ t < ftrain + ntrains

\* Positions to which a kept row of some module maps.
KeptPositions == {Position(e.tid, e.cid) : e \in {x \in kept : OnTimeline(x.tid)}}
\* Train ids of the kept rows.
KeptTrains == {e.tid : e \in kept}

\* Row indexes of chunk c of the file being mapped, and those of them kept.
RowsOfChunk(c) == {i \in 1..Len(rows) : (i - 1) \div chunk_size = c}
KeptOfChunk(c) == {i \in RowsOfChunk(c) : sel[i]}
\* Distinct canonical destinations found on the timeline for the kept rows of chunk c.
DestsOfChunk(c) ==
  {Position(rows[i].tid, rows[i].cid) : i \in {j \in KeptOfChunk(c) : OnTimeline(rows[j].tid)}}

\* C1 (as claimed): when a run is aborted by a failed chunk integrity check, no
\* output file exists.
C1_NoArtifactAfterAbort == pc = "aborted" => outf = "none"

C3_SingleSourcePerDestination ==
  \A e1 \in layout_data : \A e2 \in layout_data :
    (e1.mod = e2.mod /\ e1.dest = e2.dest) => e1.src = e2.src

\* C4: when the number of kept rows of a chunk differs from the number of
\* distinct destinations found for them, the run aborts at that chunk: that step
\* declares no mapping and commits nothing, and nothing happens after an abort.
C4_AbortOnChunkMismatch ==
  [][ /\ ( /\ pc = "chunk"
           /\ chunk < num_chunks(Len(rows))
           /\ Cardinality(KeptOfChunk(chunk)) # Cardinality(DestsOfChunk(chunk)) )
         => ( /\ pc' = "aborted"
              /\ layout_data' = layout_data
              /\ ~vds'.created )
      /\ pc = "aborted" => FALSE
    ]_vars

\* Witness of C4: a run aborted at a chunk in which two kept rows have the same
\* destination, after mappings had been declared, and nothing committed.
C4_Witness ==
  /\ pc = "aborted"
  /\ layout_data # {}
  /\ ~vds.created
  /\ \E i \in KeptOfChunk(chunk) : \E j \in KeptOfChunk(chunk) :
       /\ i # j
       /\ OnTimeline(rows[i].tid)
       /\ rows[i].tid = rows[j].tid /\ rows[i].cid = rows[j].cid

\* C5 (as claimed): after validation of a file's rows every kept row has a
\* train id that is not 0 and lies in [firstTrainId, firstTrainId + trainCount),
\* and every row with train id 0 or outside that range is rejected.
C5_KeptRowsInRange ==
  pc = "chunk" =>
    \A i \in 1..Len(rows) :
      /\ sel[i] => (rows[i].tid # 0 /\ OnTimeline(rows[i].tid))
      /\ (rows[i].tid = 0 \/ ~OnTimeline(rows[i].tid)) => ~sel[i]

\* Rows of the file being mapped with train id t: all of them, those passing
\* rules 1-2, and those kept, as sets of row indexes.
RowsOfTrain(t) == {i \in 1..Len(rows) : rows[i].tid = t}
PassingOfTrain(t) == {i \in RowsOfTrain(t) : t # 0 /\ OnTimeline(t)}
KeptOfTrain(t) == {i \in RowsOfTrain(t) : sel[i]}
\* The first n elements of a set of row indexes.
FirstOf(S, n) == {i \in S : Cardinality({j \in S : j < i}) < n}

\* C6 (as claimed): for every module and every train id, at most pulsesPerTrain
\* rows with that train id are kept, and when more than pulsesPerTrain rows
\* passing rules 1-2 share a train id the kept ones are the first pulsesPerTrain.
C6_AtMostPulsesPerModule ==
  /\ \A k \in Modules : \A t \in RowTrains :
       Cardinality({e \in kept : e.mod = k /\ e.tid = t}) <= npulses
  /\ pc = "chunk" =>
       \A t \in RowTrains :
         Cardinality(PassingOfTrain(t)) > npulses =>
           KeptOfTrain(t) = FirstOf(PassingOfTrain(t), npulses)

\* C6 (amended): for every file of a module and every train id, at most
\* pulsesPerTrain rows of the file with that train id are kept, and when more
\* than pulsesPerTrain rows of the file passing rules 1-2 share a train id the
\* kept ones are the first pulsesPerTrain in physical row order; train ids
\* [0, 5, 5, 5, 6] with pulsesPerTrain = 2 keep the rows 2, 3 and 5.
C6_AtMostPulsesPerFile ==
  /\ pc = "chunk" =>
       \A t \in RowTrains :
         /\ Cardinality(KeptOfTrain(t)) <= npulses
         /\ Cardinality(PassingOfTrain(t)) > npulses =>
              KeptOfTrain(t) = FirstOf(PassingOfTrain(t), npulses)
  /\ npulses = 2 =>
       SelOf(<<0, 5, 5, 5, 6>>, 7) = <<FALSE, TRUE, TRUE, FALSE, TRUE>>

\* Witness of C6: a file in which more than pulsesPerTrain rows passing rules
\* 1-2 share a train id, validated.
C6_Witness ==
  /\ pc = "chunk"
  /\ \E t \in RowTrains :
       /\ Cardinality(PassingOfTrain(t)) > npulses
       /\ Cardinality(KeptOfTrain(t)) = npulses

\* The scan of a module whose only file exceeds the span limit has ended
\* (line 59 is next): idx is that file's INDEX/trainId.
OnlyFileTooLarge ==
  /\ pc = "scan"
  /\ nfiles[m] = 1
  /\ fi > nfiles[m]
  /\ SeqMax(idx) - SeqMin(idx) > 260

C8_TimelineCoversModules ==
  pc = "create" => \A t \in seen : ftrain <= t /\ t < ftrain + ntrains

\* The module orders, and the id writes of the modules applied in order o.
Orders == {o \in [1..NModules -> Modules] : \A i, j \in 1..NModules : o[i] = o[j] => i = j}
RECURSIVE Composed(_, _)
Composed(o, n) == IF n = 0 THEN << >> ELSE Override(Composed(o, n - 1), written[o[n]])

\* C9 (as claimed): the final cellId and pulseId arrays of a completed run are
\* those of every other order of processing the modules.
C9_OrderIndependent ==
  pc = "done" =>
    \A o \in Orders :
      LET w == Composed(o, NModules) IN
        /\ outdset_cid.data = [p \in DOMAIN w |-> w[p].cid]
        /\ outdset_pid.data = [p \in DOMAIN w |-> w[p].pid]

\* Positions to which the kept rows of the file being mapped map.
FilePositions ==
  {Position(rows[i].tid, rows[i].cid) : i \in {j \in 1..Len(rows) : sel[j]}}

\* cellId and pulseId at position p after the step.
CellIdAfter(p) ==
  IF p \in DOMAIN outdset_cid'.data THEN outdset_cid'.data[p] ELSE outdset_cid'.init
PulseIdAfter(p) ==
  IF p \in DOMAIN outdset_pid'.data THEN outdset_pid'.data[p] ELSE outdset_pid'.init

\* C10 (as claimed): the id write of one file sets cellId and pulseId at the
\* canonical position of every kept row to that row's ids, and changes no other
\* position.
C10_WritesAtKeptPositions ==
  [][ (pc = "chunk" /\ pc' = "map") =>
        /\ \A i \in {j \in 1..Len(rows) : sel[j]} :
             /\ CellIdAfter(Position(rows[i].tid, rows[i].cid)) = rows[i].cid
             /\ PulseIdAfter(Position(rows[i].tid, rows[i].cid)) = rows[i].pid
        /\ \A p \in Frames \ FilePositions :
             /\ CellIdAfter(p) = CellIdAt(p)
             /\ PulseIdAfter(p) = PulseIdAt(p)
    ]_vars
====
